---- MODULE Spec2Model ----
(***************************************************************************)
(* Model of libmproxy/proxy/config.py: HostMatcher, ProxyConfig,           *)
(* version_to_openssl and process_proxy_options.                           *)
(*                                                                         *)
(* Text that the code takes apart or puts together (certificate specs,     *)
(* paths, user:pass strings, regular expressions, "host:port") is a        *)
(* sequence of one-character strings.  Text that the code only compares    *)
(* or passes on (mode names, TLS labels, HTTP forms, upstream addresses)   *)
(* is a TLA+ string.                                                       *)
(***************************************************************************)
EXTENDS Integers, Sequences, FiniteSets, TLC

VARIABLES
    \* ---- process_proxy_options: inputs and environment
    options,             \* the parsed option namespace (clientcerts is rewritten at line 140)
    platform_resolver,   \* truth value of platform.resolver on the running platform
    parser_exits,        \* TRUE: parser.error() raises SystemExit (argparse);
                         \* FALSE: parser.error() returns (a parser double)
    class_http_form_in,  \* http_form_in class attribute of the mode class that gets selected
    class_http_form_out, \* http_form_out class attribute of the mode class that gets selected
    \* ---- process_proxy_options: locals and outcome
    pc,                  \* position in process_proxy_options
    c,                   \* line 117
    mode,                \* line 118
    upstream_server,     \* line 118
    authenticator,       \* lines 159/161
    certs,               \* line 163
    idx,                 \* position of the loop of line 164 in options.certs
    ssl_ports,           \* line 173
    errors,              \* the messages handed to parser.error, in order
    config,              \* the ProxyConfig returned, if any
    raised,              \* the exception that left ProxyConfig.__init__, if any
    \* ---- HostMatcher
    self,                \* a HostMatcher instance
    address,             \* the argument of the last __call__
    matched              \* the value the last __call__ returned

procVars == <<options, platform_resolver, parser_exits, class_http_form_in,
              class_http_form_out, pc, c, mode, upstream_server, authenticator,
              certs, idx, ssl_ports, errors, config, raised>>
matcherVars == <<self, address, matched>>
vars == <<procVars, matcherVars>>

(***************************************************************************)
(* Bounds.                                                                 *)
(***************************************************************************)
MaxCerts == 2        \* longest options.certs
MaxUserPorts == 2    \* most --ssl-port values appended to the default
MaxPatterns == 2     \* longest HostMatcher pattern list

(***************************************************************************)
(* Python values.                                                          *)
(***************************************************************************)
\* None where a TLA+ string is expected.
None == "None"
\* None where a character sequence is expected: no text holds a multi-character element.
NoneS == <<"None">>
\* bool(s) of a str-or-None held as a TLA+ string
TruthyStr(s) == s # None /\ s # ""
\* bool(s) of a str-or-None held as a character sequence
TruthySeq(s) == s # NoneS /\ s # <<>>

\* All sequences over S of length at most n.
RECURSIVE SeqsUpTo(_, _)
SeqsUpTo(S, n) ==
    IF n = 0 THEN {<<>>}
    ELSE LET shorter == SeqsUpTo(S, n - 1)
         IN  shorter \cup {Append(s, x) : s \in {t \in shorter : Len(t) = n - 1}, x \in S}

\* Index of the first occurrence of ch in s, 0 if there is none (str.find + 1).
RECURSIVE FindFrom(_, _, _)
FindFrom(s, ch, k) ==
    IF k > Len(s) THEN 0
    ELSE IF s[k] = ch THEN k
    ELSE FindFrom(s, ch, k + 1)

\* s.split(sep, maxsplit) for a one-character sep; maxsplit = -1 splits everywhere.
RECURSIVE Split(_, _, _)
Split(s, sep, maxsplit) ==
    LET k == FindFrom(s, sep, 1)
    IN  IF maxsplit = 0 \/ k = 0 THEN <<s>>
        ELSE <<SubSeq(s, 1, k - 1)>> \o Split(SubSeq(s, k + 1, Len(s)), sep, maxsplit - 1)

\* "%s" % n for a non-negative int.
Digits == <<"0", "1", "2", "3", "4", "5", "6", "7", "8", "9">>
RECURSIVE IntToStr(_)
IntToStr(n) ==
    IF n < 10 THEN <<Digits[n + 1]>>
    ELSE IntToStr(n \div 10) \o <<Digits[(n % 10) + 1]>>

(***************************************************************************)
(* The file system and os.path.                                            *)
(***************************************************************************)
Home == <<"/", "h">>
\* regular files that exist
Files == { <<"p">>, <<"q", "=", "r">>, <<"/", "h", "/", "p">>, <<"f">> }
\* directories that exist
Dirs == { <<"d">>, <<"/", "h", "/", "d">> }

os_path_exists(path) == path \in Files \cup Dirs
os_path_isdir(path) == path \in Dirs
\* os.path.expanduser: a leading "~" alone or before "/" becomes the home directory;
\* anything else (including "~name" of an unknown user) is returned unchanged.
os_path_expanduser(path) ==
    IF Len(path) >= 1 /\ path[1] = "~" /\ (Len(path) = 1 \/ path[2] = "/")
    THEN Home \o Tail(path)
    ELSE path

(***************************************************************************)
(* re: the patterns used are literals, ".", "\x" escapes, a leading "^"    *)
(* and a trailing "$".                                                     *)
(***************************************************************************)
UpperCase == <<"A", "B", "C", "D", "E", "F", "G", "H", "I", "J", "K", "L", "M",
               "N", "O", "P", "Q", "R", "S", "T", "U", "V", "W", "X", "Y", "Z">>
LowerCase == <<"a", "b", "c", "d", "e", "f", "g", "h", "i", "j", "k", "l", "m",
               "n", "o", "p", "q", "r", "s", "t", "u", "v", "w", "x", "y", "z">>
Lower(ch) ==
    IF \E k \in 1..Len(UpperCase) : UpperCase[k] = ch
    THEN LowerCase[CHOOSE k \in 1..Len(UpperCase) : UpperCase[k] = ch]
    ELSE ch
CharEq(a, b, ignorecase) == IF ignorecase THEN Lower(a) = Lower(b) ELSE a = b

\* Does pat[i..] match text starting at text[j]?
RECURSIVE MatchHere(_, _, _, _, _)
MatchHere(pat, i, text, j, ignorecase) ==
    IF i > Len(pat) THEN TRUE
    ELSE IF pat[i] = "$" /\ i = Len(pat) THEN j > Len(text)
    ELSE IF pat[i] = "\\" /\ i < Len(pat)
         THEN /\ j <= Len(text)
              /\ CharEq(pat[i + 1], text[j], ignorecase)
              /\ MatchHere(pat, i + 2, text, j + 1, ignorecase)
    ELSE IF j > Len(text) THEN FALSE
    ELSE IF pat[i] = "." THEN MatchHere(pat, i + 1, text, j + 1, ignorecase)
    ELSE /\ CharEq(pat[i], text[j], ignorecase)
         /\ MatchHere(pat, i + 1, text, j + 1, ignorecase)

\* A compiled pattern: re.compile(p, flags).
re_compile(p, ignorecase) == [pattern |-> p, ignorecase |-> ignorecase]
\* rex.search(text) is not None
re_search(rex, text) ==
    IF Len(rex.pattern) >= 1 /\ rex.pattern[1] = "^"
    THEN MatchHere(rex.pattern, 2, text, 1, rex.ignorecase)
    ELSE \E s \in 1..(Len(text) + 1) : MatchHere(rex.pattern, 1, text, s, rex.ignorecase)

(***************************************************************************)
(* class HostMatcher                                                       *)
(***************************************************************************)
\* Faulty variant of HostMatcher_init: the patterns are compiled without re.IGNORECASE.
HostMatcher_init_CaseSensitive(patterns) ==
    [patterns |-> patterns,
     regexes  |-> [k \in 1..Len(patterns) |-> re_compile(patterns[k], FALSE)]]

\* HostMatcher.__init__
HostMatcher_init(patterns) ==
    [patterns |-> patterns,
     regexes  |-> [k \in 1..Len(patterns) |-> re_compile(patterns[k], TRUE)]]

\* any(rex.search(host) for rex in regexes): the first hit ends the scan.
RECURSIVE AnySearch(_, _, _)
AnySearch(regexes, k, host) ==
    IF k > Len(regexes) THEN FALSE
    ELSE IF re_search(regexes[k], host) THEN TRUE
    ELSE AnySearch(regexes, k + 1, host)

\* HostMatcher.__call__; addr is tcp.Address.wrap(address)
HostMatcher_call(m, addr) ==
    LET host == addr.host \o <<":">> \o IntToStr(addr.port)
    IN  IF AnySearch(m.regexes, 1, host) THEN TRUE ELSE FALSE

\* HostMatcher.__nonzero__
HostMatcher_nonzero(m) == m.patterns # <<>>

(***************************************************************************)
(* OpenSSL.SSL: a method selector is named; a disable bitmask is the set   *)
(* of its OP_ bits, | is union, and None is the set holding only None.     *)
(***************************************************************************)
SSL_getattr(name) == name
SSLv23_METHOD == SSL_getattr("SSLv23_METHOD")
OP_NO_SSLv2 == {"OP_NO_SSLv2"}
OP_NO_SSLv3 == {"OP_NO_SSLv3"}
NoneMask == {None}
BitOr(a, b) == a \cup b

\* line 93
sslversion_choices == <<"all", "secure", "SSLv2", "SSLv3", "TLSv1", "TLSv1_1", "TLSv1_2">>
InChoices(version) == \E k \in 1..Len(sslversion_choices) : sslversion_choices[k] = version

\* Faulty variant of version_to_openssl: "secure" disables SSLv2 only.
version_to_openssl_KeepsSSLv3(version) ==
    IF version = "all" THEN [raises |-> FALSE, method |-> SSLv23_METHOD, options |-> NoneMask]
    ELSE IF version = "secure"
         THEN [raises |-> FALSE, method |-> SSLv23_METHOD, options |-> OP_NO_SSLv2]
    ELSE IF InChoices(version)
         THEN [raises |-> FALSE, method |-> SSL_getattr(version \o "_METHOD"), options |-> NoneMask]
    ELSE [raises |-> TRUE, type |-> "ValueError", msg |-> "Invalid SSL version: %s", arg |-> version]

\* version_to_openssl: the pair returned, or the ValueError raised
version_to_openssl(version) ==
    IF version = "all" THEN [raises |-> FALSE, method |-> SSLv23_METHOD, options |-> NoneMask]
    ELSE IF version = "secure"
         THEN [raises |-> FALSE, method |-> SSLv23_METHOD,
               options |-> BitOr(OP_NO_SSLv2, OP_NO_SSLv3)]
    ELSE IF InChoices(version)
         THEN [raises |-> FALSE, method |-> SSL_getattr(version \o "_METHOD"), options |-> NoneMask]
    ELSE [raises |-> TRUE, type |-> "ValueError", msg |-> "Invalid SSL version: %s", arg |-> version]

(***************************************************************************)
(* The messages process_proxy_options hands to parser.error.               *)
(***************************************************************************)
NoError == [msg |-> "", arg |-> NoneS]
ErrTransparent == [msg |-> "Transparent mode not supported on this platform.", arg |-> NoneS]
ErrModes ==
    [msg |-> "Transparent, SOCKS5, reverse and upstream proxy mode are mutually exclusive.",
     arg |-> NoneS]
ErrClientCerts(path) ==
    [msg |-> "Client certificate directory does not exist or is not a directory: %s",
     arg |-> path]
ErrSingleUser ==
    [msg |-> "Invalid single-user specification. Please use the format username:password",
     arg |-> NoneS]
\* v.message of the ValueError of PassManHtpasswd
ErrHtpasswd == [msg |-> "v.message", arg |-> NoneS]
ErrCert(path) == [msg |-> "Certificate file does not exist: %s", arg |-> path]

(***************************************************************************)
(* process_proxy_options, lines 117-137: the routing mode.                 *)
(***************************************************************************)
\* Faulty variant of ResolveModeLocals: the count is compared before the platform is asked.
ResolveModeLocals_CountFirst(o, resolver) ==
    LET n == (IF o.transparent_proxy THEN 1 ELSE 0) + (IF o.socks_proxy THEN 1 ELSE 0)
             + (IF TruthyStr(o.reverse_proxy) THEN 1 ELSE 0)
             + (IF TruthyStr(o.upstream_proxy) THEN 1 ELSE 0)
        m == IF TruthyStr(o.upstream_proxy) THEN "upstream"
             ELSE IF TruthyStr(o.reverse_proxy) THEN "reverse"
             ELSE IF o.socks_proxy THEN "socks5"
             ELSE IF o.transparent_proxy THEN "transparent" ELSE None
        u == IF TruthyStr(o.upstream_proxy) THEN o.upstream_proxy
             ELSE IF TruthyStr(o.reverse_proxy) THEN o.reverse_proxy ELSE None
    IN  IF n > 1 THEN [error |-> ErrModes, c |-> n, mode |-> m, upstream_server |-> u]
        ELSE IF o.transparent_proxy /\ ~resolver
             THEN [error |-> ErrTransparent, c |-> n, mode |-> None, upstream_server |-> None]
        ELSE [error |-> NoError, c |-> n, mode |-> m, upstream_server |-> u]

\* Faulty variant of ResolveModeLocals: the count is compared with 2.
ResolveModeLocals_OffByOne(o, resolver) ==
    LET n == (IF o.transparent_proxy THEN 1 ELSE 0) + (IF o.socks_proxy THEN 1 ELSE 0)
             + (IF TruthyStr(o.reverse_proxy) THEN 1 ELSE 0)
             + (IF TruthyStr(o.upstream_proxy) THEN 1 ELSE 0)
        m == IF TruthyStr(o.upstream_proxy) THEN "upstream"
             ELSE IF TruthyStr(o.reverse_proxy) THEN "reverse"
             ELSE IF o.socks_proxy THEN "socks5"
             ELSE IF o.transparent_proxy THEN "transparent" ELSE None
        u == IF TruthyStr(o.upstream_proxy) THEN o.upstream_proxy
             ELSE IF TruthyStr(o.reverse_proxy) THEN o.reverse_proxy ELSE None
    IN  IF o.transparent_proxy /\ ~resolver
        THEN [error |-> ErrTransparent, c |-> 1, mode |-> None, upstream_server |-> None]
        ELSE [error |-> IF n > 2 THEN ErrModes ELSE NoError,
              c |-> n, mode |-> m, upstream_server |-> u]

\* The locals c, mode, upstream_server when lines 117-137 are left, and the error
\* reported there if any.
ResolveModeLocals(o, resolver) ==
    LET c1 == IF o.transparent_proxy THEN 1 ELSE 0                  \* line 120
    IN  IF o.transparent_proxy /\ ~resolver                          \* lines 121-122
        THEN [error |-> ErrTransparent, c |-> c1, mode |-> None, upstream_server |-> None]
        ELSE
        LET m1 == IF o.transparent_proxy THEN "transparent" ELSE None      \* line 123
            c2 == IF o.socks_proxy THEN c1 + 1 ELSE c1                      \* line 125
            m2 == IF o.socks_proxy THEN "socks5" ELSE m1                    \* line 126
            c3 == IF TruthyStr(o.reverse_proxy) THEN c2 + 1 ELSE c2         \* line 128
            m3 == IF TruthyStr(o.reverse_proxy) THEN "reverse" ELSE m2      \* line 129
            u3 == IF TruthyStr(o.reverse_proxy) THEN o.reverse_proxy ELSE None
            c4 == IF TruthyStr(o.upstream_proxy) THEN c3 + 1 ELSE c3        \* line 132
            m4 == IF TruthyStr(o.upstream_proxy) THEN "upstream" ELSE m3    \* line 133
            u4 == IF TruthyStr(o.upstream_proxy) THEN o.upstream_proxy ELSE u3
        IN  [error |-> IF c4 > 1 THEN ErrModes ELSE NoError,        \* lines 135-137
             c |-> c4, mode |-> m4, upstream_server |-> u4]

(***************************************************************************)
(* process_proxy_options, lines 146-161: the authenticator.                *)
(***************************************************************************)
\* htpasswd files that http_auth.PassManHtpasswd loads; any other raises ValueError
HtpasswdLoadable == {"/ok.htpasswd"}

NullProxyAuth == [kind |-> "NullProxyAuth"]
BasicProxyAuth(password_manager) ==
    [kind |-> "BasicProxyAuth", password_manager |-> password_manager, realm |-> "mitmproxy"]
PassManSingleUser(username, password) ==
    [kind |-> "PassManSingleUser", username |-> username, password |-> password]
PassManNonAnon == [kind |-> "PassManNonAnon"]
PassManHtpasswd(path) == [kind |-> "PassManHtpasswd", path |-> path]
Unset == [kind |-> "unset"]

\* Faulty variant of SelectAuthenticator: more than one flag is refused.
SelectAuthenticator_Exclusive(o) ==
    LET n == (IF o.auth_nonanonymous THEN 1 ELSE 0)
             + (IF TruthySeq(o.auth_singleuser) THEN 1 ELSE 0)
             + (IF TruthyStr(o.auth_htpasswd) THEN 1 ELSE 0)
    IN  IF n > 1
        THEN [error |-> [msg |-> "The authentication options are mutually exclusive.",
                         arg |-> NoneS],
              authenticator |-> Unset]
        ELSE IF TruthySeq(o.auth_singleuser)
             THEN LET parts == Split(o.auth_singleuser, ":", -1)
                  IN  IF Len(parts) # 2 THEN [error |-> ErrSingleUser, authenticator |-> Unset]
                      ELSE [error |-> NoError,
                            authenticator |-> BasicProxyAuth(PassManSingleUser(parts[1], parts[2]))]
        ELSE IF o.auth_nonanonymous
             THEN [error |-> NoError, authenticator |-> BasicProxyAuth(PassManNonAnon)]
        ELSE IF TruthyStr(o.auth_htpasswd)
             THEN IF o.auth_htpasswd \in HtpasswdLoadable
                  THEN [error |-> NoError,
                        authenticator |-> BasicProxyAuth(PassManHtpasswd(o.auth_htpasswd))]
                  ELSE [error |-> ErrHtpasswd, authenticator |-> Unset]
        ELSE [error |-> NoError, authenticator |-> NullProxyAuth]

\* Faulty variant of SelectAuthenticator: nonanonymous is tested before singleuser.
SelectAuthenticator_NonAnonFirst(o) ==
    IF o.auth_nonanonymous
    THEN [error |-> NoError, authenticator |-> BasicProxyAuth(PassManNonAnon)]
    ELSE IF TruthySeq(o.auth_singleuser)
         THEN LET parts == Split(o.auth_singleuser, ":", -1)
              IN  IF Len(parts) # 2 THEN [error |-> ErrSingleUser, authenticator |-> Unset]
                  ELSE [error |-> NoError,
                        authenticator |-> BasicProxyAuth(PassManSingleUser(parts[1], parts[2]))]
    ELSE IF TruthyStr(o.auth_htpasswd)
         THEN IF o.auth_htpasswd \in HtpasswdLoadable
              THEN [error |-> NoError,
                    authenticator |-> BasicProxyAuth(PassManHtpasswd(o.auth_htpasswd))]
              ELSE [error |-> ErrHtpasswd, authenticator |-> Unset]
    ELSE [error |-> NoError, authenticator |-> NullProxyAuth]

\* The authenticator when lines 146-161 are left, or the error reported there.
SelectAuthenticator(o) ==
    IF o.auth_nonanonymous \/ TruthySeq(o.auth_singleuser) \/ TruthyStr(o.auth_htpasswd)
    THEN IF TruthySeq(o.auth_singleuser)                                        \* line 147
         THEN LET parts == Split(o.auth_singleuser, ":", -1)
              IN  IF Len(parts) # 2                                             \* line 148
                  THEN [error |-> ErrSingleUser, authenticator |-> Unset]
                  ELSE [error |-> NoError,
                        authenticator |-> BasicProxyAuth(PassManSingleUser(parts[1], parts[2]))]
         ELSE IF o.auth_nonanonymous                                            \* line 152
              THEN [error |-> NoError, authenticator |-> BasicProxyAuth(PassManNonAnon)]
         ELSE IF TruthyStr(o.auth_htpasswd)                                     \* line 154
              THEN IF o.auth_htpasswd \in HtpasswdLoadable                      \* lines 155-158
                   THEN [error |-> NoError,
                         authenticator |-> BasicProxyAuth(PassManHtpasswd(o.auth_htpasswd))]
                   ELSE [error |-> ErrHtpasswd, authenticator |-> Unset]
         ELSE [error |-> NoError, authenticator |-> Unset]  \* not reached: line 146 held
    ELSE [error |-> NoError, authenticator |-> NullProxyAuth]                   \* line 161

(***************************************************************************)
(* process_proxy_options, lines 163-177: certificate specs and TLS ports.  *)
(***************************************************************************)
Star == <<"*">>

\* Faulty variant of ParseCertSpec: the spec is split at every "=".
ParseCertSpec_SplitAll(i) ==
    LET parts0 == Split(i, "=", -1)
        parts1 == IF Len(parts0) = 1 THEN <<Star, parts0[1]>> ELSE parts0
    IN  <<parts1[1], os_path_expanduser(parts1[2])>>

\* parts when line 168 has run
ParseCertSpec(i) ==
    LET parts0 == Split(i, "=", 1)                                         \* line 165
        parts1 == IF Len(parts0) = 1 THEN <<Star, parts0[1]>> ELSE parts0  \* lines 166-167
    IN  <<parts1[1], os_path_expanduser(parts1[2])>>                       \* line 168

\* line 9
TRANSPARENT_SSL_PORTS == <<443, 8443>>

\* Faulty variant of StripSslPorts: the default is never stripped.
StripSslPorts_Keep(ports) == ports

\* ssl_ports when line 177 has run
StripSslPorts(ports) ==
    IF ports # TRANSPARENT_SSL_PORTS
    THEN SubSeq(ports, Len(TRANSPARENT_SSL_PORTS) + 1, Len(ports))
    ELSE ports

(***************************************************************************)
(* class ProxyConfig, lines 56-90.                                         *)
(***************************************************************************)
\* platform.resolver(): the destination resolver of the running platform
PlatformResolver == "platform.resolver()"

\* The mode object of lines 65-74, with the class attributes form_in/form_out of
\* its class.  Each variant carries its own fields.
ProxyMode(name, upstream, ports, form_in, form_out) ==
    IF name = "transparent"
    THEN [name |-> "transparent", resolver |-> PlatformResolver, sslports |-> ports,
          http_form_in |-> form_in, http_form_out |-> form_out]
    ELSE IF name = "socks5"
         THEN [name |-> "socks5", sslports |-> ports,
               http_form_in |-> form_in, http_form_out |-> form_out]
    ELSE IF name = "reverse"
         THEN [name |-> "reverse", dst |-> upstream,
               http_form_in |-> form_in, http_form_out |-> form_out]
    ELSE IF name = "upstream"
         THEN [name |-> "upstream", dst |-> upstream,
               http_form_in |-> form_in, http_form_out |-> form_out]
    ELSE [name |-> "regular", http_form_in |-> form_in, http_form_out |-> form_out]

\* Faulty variant of OverrideForms: http_form_out is overridden by http_form_in.
OverrideForms_Crossed(m, http_form_in, http_form_out) ==
    [m EXCEPT !.http_form_in  = IF TruthyStr(http_form_in) THEN http_form_in ELSE @,
              !.http_form_out = IF TruthyStr(http_form_in) THEN http_form_in ELSE @]

\* lines 77-78: x or y
OverrideForms(m, http_form_in, http_form_out) ==
    [m EXCEPT !.http_form_in  = IF TruthyStr(http_form_in) THEN http_form_in ELSE @,
              !.http_form_out = IF TruthyStr(http_form_out) THEN http_form_out ELSE @]

\* The first position of certs whose file certstore.add_cert_file cannot read,
\* 0 if it reads them all (lines 85-86).
RECURSIVE FirstUnreadable(_, _)
FirstUnreadable(cs, k) ==
    IF k > Len(cs) THEN 0
    ELSE IF cs[k][2] \notin Files THEN k
    ELSE FirstUnreadable(cs, k + 1)

NoConfig == [kind |-> "none"]
NoException == [type |-> "none"]

\* ProxyConfig.__init__ with the arguments of lines 179-200: the instance, or the
\* exception that leaves the constructor.  host, port, server_version, the cipher
\* strings, no_upstream_cert, body_size_limit and certforward are stored as given
\* and left out.
ProxyConfig(o, mode_, upstream_, authenticator_, certs_, ssl_ports_, form_in, form_out) ==
    LET m      == OverrideForms(ProxyMode(mode_, upstream_, ssl_ports_, form_in, form_out),
                                o.http_form_in, o.http_form_out)
        bad    == FirstUnreadable(certs_, 1)
        client == version_to_openssl(o.ssl_version_client)
        server == version_to_openssl(o.ssl_version_server)
    IN  IF bad # 0
        THEN [raised |-> [type |-> "IOError", arg |-> certs_[bad][2]], config |-> NoConfig]
        ELSE IF client.raises
             THEN [raised |-> [type |-> client.type, arg |-> client.arg], config |-> NoConfig]
        ELSE IF server.raises
             THEN [raised |-> [type |-> server.type, arg |-> server.arg], config |-> NoConfig]
        ELSE [raised |-> NoException,
              config |->
                [kind |-> "ProxyConfig",
                 clientcerts |-> o.clientcerts,
                 mode |-> m,
                 check_ignore |-> HostMatcher_init(o.ignore_hosts),
                 check_tcp |-> HostMatcher_init(o.tcp_hosts),
                 authenticator |-> authenticator_,
                 cadir |-> os_path_expanduser(o.cadir),
                 certstore |-> certs_,
                 openssl_method_client |-> client.method,
                 openssl_options_client |-> client.options,
                 openssl_method_server |-> server.method,
                 openssl_options_server |-> server.options,
                 ssl_ports |-> ssl_ports_]]

(***************************************************************************)
(* The steps of process_proxy_options.                                     *)
(***************************************************************************)
Frame(changed) ==
    /\ UNCHANGED <<platform_resolver, parser_exits, class_http_form_in, class_http_form_out>>
    /\ UNCHANGED matcherVars
    /\ IF "options" \in changed THEN TRUE ELSE UNCHANGED options
    /\ IF "mode" \in changed THEN TRUE ELSE UNCHANGED <<c, mode, upstream_server>>
    /\ IF "authenticator" \in changed THEN TRUE ELSE UNCHANGED authenticator
    /\ IF "certs" \in changed THEN TRUE ELSE UNCHANGED <<certs, idx>>
    /\ IF "ssl_ports" \in changed THEN TRUE ELSE UNCHANGED ssl_ports
    /\ IF "errors" \in changed THEN TRUE ELSE UNCHANGED errors
    /\ IF "result" \in changed THEN TRUE ELSE UNCHANGED <<config, raised>>

\* return parser.error(e): SystemExit leaves the function, or the value of
\* parser.error is returned.
ReturnParserError(e) ==
    /\ errors' = Append(errors, e)
    /\ pc' = IF parser_exits THEN "exit" ELSE "returned"

\* lines 117-137
ResolveMode ==
    /\ pc = "mode"
    /\ LET r == ResolveModeLocals(options, platform_resolver)
       IN  /\ c' = r.c
           /\ mode' = r.mode
           /\ upstream_server' = r.upstream_server
           /\ IF r.error # NoError
              THEN ReturnParserError(r.error)
              ELSE pc' = "clientcerts" /\ UNCHANGED errors
    /\ Frame({"mode", "errors"})

\* lines 139-144
CheckClientCerts ==
    /\ pc = "clientcerts"
    /\ IF TruthySeq(options.clientcerts)
       THEN LET dir == os_path_expanduser(options.clientcerts)
            IN  /\ options' = [options EXCEPT !.clientcerts = dir]
                /\ IF ~os_path_exists(dir) \/ ~os_path_isdir(dir)
                   THEN ReturnParserError(ErrClientCerts(dir))
                   ELSE pc' = "auth" /\ UNCHANGED errors
       ELSE pc' = "auth" /\ UNCHANGED <<options, errors>>
    /\ Frame({"options", "errors"})

\* lines 146-163
SelectAuth ==
    /\ pc = "auth"
    /\ LET r == SelectAuthenticator(options)
       IN  /\ authenticator' = r.authenticator
           /\ IF r.error # NoError
              THEN ReturnParserError(r.error)
              ELSE pc' = "certs" /\ UNCHANGED errors
    /\ Frame({"authenticator", "errors"})

\* lines 164-171: one turn of the loop.  Line 170 calls parser.error without
\* returning: when the call comes back, line 171 runs.
LoadCert ==
    /\ pc = "certs"
    /\ idx <= Len(options.certs)
    /\ LET parts == ParseCertSpec(options.certs[idx])
       IN  IF ~os_path_exists(parts[2])
           THEN /\ errors' = Append(errors, ErrCert(parts[2]))
                /\ IF parser_exits
                   THEN pc' = "exit" /\ UNCHANGED <<certs, idx>>
                   ELSE pc' = "certs" /\ certs' = Append(certs, parts) /\ idx' = idx + 1
           ELSE /\ certs' = Append(certs, parts)
                /\ idx' = idx + 1
                /\ UNCHANGED <<pc, errors>>
    /\ Frame({"certs", "errors"})

\* lines 173-177, once the loop of line 164 is over
StripPorts ==
    /\ pc = "certs"
    /\ idx > Len(options.certs)
    /\ ssl_ports' = StripSslPorts(options.ssl_ports)
    /\ pc' = "construct"
    /\ Frame({"ssl_ports"})

\* lines 179-200 and ProxyConfig.__init__
Construct ==
    /\ pc = "construct"
    /\ LET r == ProxyConfig(options, mode, upstream_server, authenticator, certs, ssl_ports,
                            class_http_form_in, class_http_form_out)
       IN  /\ config' = r.config
           /\ raised' = r.raised
           /\ pc' = IF r.raised # NoException THEN "raised" ELSE "done"
    /\ Frame({"result"})

(***************************************************************************)
(* Inputs.  The options fall into groups that the code reads in different  *)
(* places; a run takes the command-line defaults everywhere except in at   *)
(* most two groups, which range over all the values below.                 *)
(***************************************************************************)
Groups == {"mode", "parser", "clientcerts", "auth", "certs", "ssl_ports", "forms",
           "versions", "hosts"}

ModeInputs ==
    [transparent_proxy : BOOLEAN, socks_proxy : BOOLEAN,
     reverse_proxy : {None, "http://r:80"}, upstream_proxy : {None, "http://u:8080"},
     resolver : BOOLEAN]
DefaultModeInput ==
    [transparent_proxy |-> FALSE, socks_proxy |-> FALSE, reverse_proxy |-> None,
     upstream_proxy |-> None, resolver |-> TRUE]

ClientCertsInputs == {NoneS, <<>>, <<"d">>, <<"~", "/", "d">>, <<"m">>, <<"f">>}

AuthInputs ==
    [auth_nonanonymous : BOOLEAN,
     auth_singleuser : {NoneS, <<"a">>, <<"a", ":", "b">>, <<"a", ":", "b", ":", "c">>, <<":">>},
     auth_htpasswd : {None, "/ok.htpasswd", "/bad.htpasswd"}]
DefaultAuthInput ==
    [auth_nonanonymous |-> FALSE, auth_singleuser |-> NoneS, auth_htpasswd |-> None]

CertSpecPool ==
    {<<"p">>, <<"x", "=", "p">>, <<"x", "=", "q", "=", "r">>, <<"~", "/", "p">>,
     <<"n">>, <<"y", "=", "n">>}
CertsInputs == SeqsUpTo(CertSpecPool, MaxCerts)

UserPorts == {80, 443}
SslPortsInputs ==
    {TRANSPARENT_SSL_PORTS \o u : u \in SeqsUpTo(UserPorts, MaxUserPorts)}
    \cup {<<>>, <<80>>, <<8443, 443, 80>>}

HttpForms == {"relative", "absolute", "authority"}
FormsInputs ==
    [http_form_in : {None, ""} \cup HttpForms, http_form_out : {None, ""} \cup HttpForms,
     class_in : HttpForms, class_out : HttpForms]
DefaultFormsInput ==
    [http_form_in |-> None, http_form_out |-> None,
     class_in |-> "absolute", class_out |-> "relative"]

VersionLabels ==
    {"all", "secure", "SSLv2", "SSLv3", "TLSv1", "TLSv1_1", "TLSv1_2", "bogus", "tlsv1"}
VersionsInputs == [ssl_version_client : VersionLabels, ssl_version_server : VersionLabels]
DefaultVersionsInput == [ssl_version_client |-> "secure", ssl_version_server |-> "secure"]

HostsInputs ==
    [ignore_hosts : {<<>>, << <<"a", "\\", ".", "b">> >>},
     tcp_hosts : {<<>>, << <<":", "8", "0", "$">> >>}]
DefaultHostsInput == [ignore_hosts |-> <<>>, tcp_hosts |-> <<>>]

Pick(g, deviating, values, default) == IF g \in deviating THEN values ELSE {default}

NoAddress == [host |-> <<>>, port |-> 0]

\* The state when process_proxy_options is entered with the given inputs.
Entered(m, exits, cc, a, cs, ports, f, v, h) ==
    /\ options =
         [transparent_proxy |-> m.transparent_proxy, socks_proxy |-> m.socks_proxy,
          reverse_proxy |-> m.reverse_proxy, upstream_proxy |-> m.upstream_proxy,
          clientcerts |-> cc,
          auth_nonanonymous |-> a.auth_nonanonymous, auth_singleuser |-> a.auth_singleuser,
          auth_htpasswd |-> a.auth_htpasswd,
          certs |-> cs, ssl_ports |-> ports,
          http_form_in |-> f.http_form_in, http_form_out |-> f.http_form_out,
          ssl_version_client |-> v.ssl_version_client,
          ssl_version_server |-> v.ssl_version_server,
          ignore_hosts |-> h.ignore_hosts, tcp_hosts |-> h.tcp_hosts,
          cadir |-> <<"~", "/", "c">>]
    /\ platform_resolver = m.resolver
    /\ parser_exits = exits
    /\ class_http_form_in = f.class_in
    /\ class_http_form_out = f.class_out
    /\ pc = "mode"
    /\ c = 0
    /\ mode = None
    /\ upstream_server = None
    /\ authenticator = Unset
    /\ certs = <<>>
    /\ idx = 1
    /\ ssl_ports = <<>>
    /\ errors = <<>>
    /\ config = NoConfig
    /\ raised = NoException

Init ==
    /\ \E g1 \in Groups, g2 \in Groups :
         LET dev == {g1, g2}
         IN  \E m \in Pick("mode", dev, ModeInputs, DefaultModeInput),
                exits \in Pick("parser", dev, BOOLEAN, TRUE),
                cc \in Pick("clientcerts", dev, ClientCertsInputs, NoneS),
                a \in Pick("auth", dev, AuthInputs, DefaultAuthInput),
                cs \in Pick("certs", dev, CertsInputs, <<>>),
                ports \in Pick("ssl_ports", dev, SslPortsInputs, TRANSPARENT_SSL_PORTS),
                f \in Pick("forms", dev, FormsInputs, DefaultFormsInput),
                v \in Pick("versions", dev, VersionsInputs, DefaultVersionsInput),
                h \in Pick("hosts", dev, HostsInputs, DefaultHostsInput) :
               Entered(m, exits, cc, a, cs, ports, f, v, h)
    /\ self = HostMatcher_init(<<>>)
    /\ address = NoAddress
    /\ matched = FALSE

Next ==
    \/ ResolveMode
    \/ CheckClientCerts
    \/ SelectAuth
    \/ LoadCert
    \/ StripPorts
    \/ Construct

Spec == Init /\ [][Next]_vars

(***************************************************************************)
(* HostMatcher on its own: matchers over a pool of patterns, called on a   *)
(* set of addresses.                                                       *)
(***************************************************************************)
PatternPool ==
    { <<"a", "\\", ".", "b">>,     \* a\.b
      <<"a", ".", "b">>,           \* a.b
      <<"^", "B">>,                \* ^B
      <<":", "8", "0", "$">>,      \* :80$
      <<"b", ":", "4">> }          \* b:4
HostPool == { <<"a", ".", "b">>, <<"A", ".", "B">>, <<"a", "x", "b">>, <<"b", "a">> }
PortPool == {80, 443, 8080}
Addresses == [host : HostPool, port : PortPool]

MatcherInit ==
    /\ Entered(DefaultModeInput, TRUE, NoneS, DefaultAuthInput, <<>>, TRANSPARENT_SSL_PORTS,
               DefaultFormsInput, DefaultVersionsInput, DefaultHostsInput)
    /\ \E P \in SeqsUpTo(PatternPool, MaxPatterns) : self = HostMatcher_init(P)
    /\ address = NoAddress
    /\ matched = FALSE

\* matcher(address)
MatcherCall ==
    /\ \E a \in Addresses :
         /\ address' = a
         /\ matched' = HostMatcher_call(self, a)
    /\ UNCHANGED <<self, procVars>>

MatcherNext == MatcherCall

SpecHostMatcher == MatcherInit /\ [][MatcherNext]_vars

(***************************************************************************)
(* Vocabulary of the properties.                                           *)
(***************************************************************************)
Ended == pc \in {"exit", "returned"}
Returned == pc = "done"
\* how many routing-mode intents the options request
Intents ==
    (IF options.transparent_proxy THEN 1 ELSE 0) + (IF options.socks_proxy THEN 1 ELSE 0)
    + (IF options.reverse_proxy \notin {None, ""} THEN 1 ELSE 0)
    + (IF options.upstream_proxy \notin {None, ""} THEN 1 ELSE 0)
\* how many authentication flags the options request
AuthFlags ==
    (IF options.auth_nonanonymous THEN 1 ELSE 0)
    + (IF options.auth_singleuser \notin {NoneS, <<>>} THEN 1 ELSE 0)
    + (IF options.auth_htpasswd \notin {None, ""} THEN 1 ELSE 0)
Msgs == {errors[k].msg : k \in 1..Len(errors)}
\* the authentication step has run: the function got past lines 117-144
AuthStepRan ==
    /\ pc \notin {"mode", "clientcerts", "auth"}
    /\ Msgs \cap {ErrTransparent.msg, ErrModes.msg, ErrClientCerts(NoneS).msg} = {}
Colons(s) == Cardinality({k \in 1..Len(s) : s[k] = ":"})
HasChar(s, ch) == \E k \in 1..Len(s) : s[k] = ch

(***************************************************************************)
(* C1                                                                      *)
(***************************************************************************)
\* the mode of the returned ProxyConfig is the variant of the one intent requested,
\* Regular when none is
ModeMatchesIntent ==
    Returned =>
      /\ Intents <= 1
      /\ Intents = 0 => config.mode.name = "regular"
      /\ options.transparent_proxy => config.mode.name = "transparent"
      /\ options.socks_proxy => config.mode.name = "socks5"
      /\ options.reverse_proxy # None =>
           config.mode.name = "reverse" /\ config.mode.dst = options.reverse_proxy
      /\ options.upstream_proxy # None =>
           config.mode.name = "upstream" /\ config.mode.dst = options.upstream_proxy

\* C1 as stated: once the routing mode is resolved, more than one intent has always
\* ended the run with the mutual-exclusion error and nothing else, and a returned
\* ProxyConfig has the mode of the single intent (Regular for none).
C1_AsStated ==
    /\ (pc # "mode" /\ Intents > 1) => (Ended /\ errors = <<ErrModes>> /\ config = NoConfig)
    /\ ModeMatchesIntent

\* C1 amended: with more than one intent the run ends with one error and no
\* ProxyConfig: the unsupported-platform error when transparent is among the intents
\* and the platform has no resolver, the mutual-exclusion error otherwise.  A returned
\* ProxyConfig has the mode of the single intent (Regular for none).
C1_ModeResolution ==
    /\ (pc # "mode" /\ Intents > 1) =>
         /\ Ended
         /\ config = NoConfig
         /\ errors = IF options.transparent_proxy /\ ~platform_resolver
                     THEN <<ErrTransparent>> ELSE <<ErrModes>>
    /\ ModeMatchesIntent

C1_Witness ==
    /\ Ended
    /\ options.transparent_proxy /\ options.upstream_proxy # None /\ platform_resolver
    /\ errors = <<ErrModes>>

(***************************************************************************)
(* C2                                                                      *)
(***************************************************************************)
\* C2: once a configuration error has been reported the run has ended without a
\* ProxyConfig, an exception out of the constructor leaves no ProxyConfig either, and
\* the certificate list never holds a path that does not exist.
C2_ErrorAbortsAssembly ==
    /\ errors # <<>> => (Ended /\ config = NoConfig)
    /\ raised # NoException => config = NoConfig
    /\ \A k \in 1..Len(certs) : os_path_exists(certs[k][2])

(***************************************************************************)
(* C3                                                                      *)
(***************************************************************************)
ValidLabels == {"all", "secure", "SSLv2", "SSLv3", "TLSv1", "TLSv1_1", "TLSv1_2"}
ExpectedMethod(label) ==
    CASE label \in {"all", "secure"} -> "SSLv23_METHOD"
      [] label = "SSLv2" -> "SSLv2_METHOD"
      [] label = "SSLv3" -> "SSLv3_METHOD"
      [] label = "TLSv1" -> "TLSv1_METHOD"
      [] label = "TLSv1_1" -> "TLSv1_1_METHOD"
      [] label = "TLSv1_2" -> "TLSv1_2_METHOD"
ExpectedMask(label) ==
    IF label = "secure" THEN {"OP_NO_SSLv2", "OP_NO_SSLv3"} ELSE {"None"}

\* C3: a returned ProxyConfig has, on each side, the method and the disable mask of
\* that side's own label; an invalid label on either side means no ProxyConfig is
\* returned, and the ValueError that leaves the constructor names the invalid label
\* (the client's when both are invalid).
C3_TlsVersionPolicy ==
    LET cl == options.ssl_version_client
        sv == options.ssl_version_server
    IN  /\ Returned =>
             /\ cl \in ValidLabels /\ sv \in ValidLabels
             /\ config.openssl_method_client = ExpectedMethod(cl)
             /\ config.openssl_options_client = ExpectedMask(cl)
             /\ config.openssl_method_server = ExpectedMethod(sv)
             /\ config.openssl_options_server = ExpectedMask(sv)
        /\ (pc = "raised" /\ raised.type = "ValueError") =>
             /\ raised.arg \notin ValidLabels
             /\ raised.arg = IF cl \notin ValidLabels THEN cl ELSE sv
        /\ (pc = "raised" /\ cl \in ValidLabels /\ sv \in ValidLabels) =>
             raised.type # "ValueError"

C3_Witness ==
    /\ Returned
    /\ options.ssl_version_client = "secure" /\ options.ssl_version_server = "all"
    /\ config.openssl_options_client = {"OP_NO_SSLv2", "OP_NO_SSLv3"}
    /\ config.openssl_options_server = {"None"}

(***************************************************************************)
(* C4                                                                      *)
(***************************************************************************)
\* C4 as stated: no ProxyConfig is returned when more than one authentication flag
\* is requested.
C4_AsStated == AuthFlags > 1 => ~Returned

\* C4 amended: more than one authentication flag is no error to
\* process_proxy_options.  With more than one flag the authentication step reports
\* an error only for a malformed auth_singleuser; otherwise it reports nothing and
\* wraps one backend in BasicProxyAuth, and a ProxyConfig returned carries it.
C4_NoAuthExclusion ==
    (AuthFlags > 1 /\ AuthStepRan) =>
      IF options.auth_singleuser \notin {NoneS, <<>>} /\ Colons(options.auth_singleuser) # 1
      THEN Ended /\ errors = <<ErrSingleUser>> /\ config = NoConfig
      ELSE /\ Msgs \subseteq {ErrCert(NoneS).msg}
           /\ authenticator.kind = "BasicProxyAuth"
           /\ Returned => config.authenticator = authenticator

C4_Witness ==
    /\ Returned
    /\ options.auth_nonanonymous /\ options.auth_htpasswd = "/bad.htpasswd"
    /\ config.authenticator.kind = "BasicProxyAuth"

(***************************************************************************)
(* C5                                                                      *)
(***************************************************************************)
\* C5: the authentication step selects by first match in the order singleuser,
\* nonanonymous, htpasswd.  A set auth_singleuser without exactly one ":" is an
\* error whatever the other flags; with exactly one it gives the SingleUser backend
\* with the text before and after the ":".  Otherwise nonanonymous gives NonAnonymous;
\* otherwise htpasswd gives Htpasswd, or an error when the file does not load; no
\* flag gives the Null authenticator.  A returned ProxyConfig carries the selection.
C5_AuthSelection ==
    AuthStepRan =>
      LET su == options.auth_singleuser
          pm == authenticator.password_manager
      IN  /\ Returned => config.authenticator = authenticator
          /\ IF su \notin {NoneS, <<>>}
             THEN IF Colons(su) # 1
                  THEN Ended /\ errors = <<ErrSingleUser>>
                  ELSE /\ authenticator.kind = "BasicProxyAuth"
                       /\ pm.kind = "PassManSingleUser"
                       /\ pm.username \o <<":">> \o pm.password = su
                       /\ ~HasChar(pm.username, ":") /\ ~HasChar(pm.password, ":")
             ELSE IF options.auth_nonanonymous
                  THEN authenticator.kind = "BasicProxyAuth" /\ pm.kind = "PassManNonAnon"
             ELSE IF options.auth_htpasswd \notin {None, ""}
                  THEN IF options.auth_htpasswd \in HtpasswdLoadable
                       THEN /\ authenticator.kind = "BasicProxyAuth"
                            /\ pm.kind = "PassManHtpasswd"
                            /\ pm.path = options.auth_htpasswd
                       ELSE Ended /\ errors = <<ErrHtpasswd>>
             ELSE authenticator.kind = "NullProxyAuth"

C5_Witness ==
    /\ Returned
    /\ options.auth_singleuser = <<"a", ":", "b">> /\ options.auth_nonanonymous
    /\ config.authenticator.password_manager = PassManSingleUser(<<"a">>, <<"b">>)

(***************************************************************************)
(* C6                                                                      *)
(***************************************************************************)
\* C6: when transparent is requested on a platform without a resolver, the run ends
\* at the mode step with the unsupported-platform error alone, no mode selected and
\* no ProxyConfig, whatever else is requested; with a resolver and transparent the
\* only intent, a returned ProxyConfig has the Transparent mode with the platform's
\* resolver and the ProxyConfig's implicitly-TLS ports.
C6_TransparentPlatform ==
    /\ (pc # "mode" /\ options.transparent_proxy /\ ~platform_resolver) =>
         /\ Ended
         /\ errors = <<ErrTransparent>>
         /\ mode = None
         /\ config = NoConfig
    /\ (Returned /\ options.transparent_proxy) =>
         /\ platform_resolver
         /\ config.mode.name = "transparent"
         /\ config.mode.resolver = PlatformResolver
         /\ config.mode.sslports = config.ssl_ports

C6_Witness ==
    /\ Ended
    /\ options.transparent_proxy /\ options.socks_proxy /\ ~platform_resolver
    /\ errors = <<ErrTransparent>>
    /\ mode = None

(***************************************************************************)
(* C7                                                                      *)
(***************************************************************************)
PortText(n) ==
    CASE n = 80 -> <<"8", "0">>
      [] n = 443 -> <<"4", "4", "3">>
      [] n = 8080 -> <<"8", "0", "8", "0">>
\* pattern p matches somewhere in text, letters compared without regard to case
MatchesSomewhere(p, text) == re_search([pattern |-> p, ignorecase |-> TRUE], text)

\* C7: the value a call returned is true exactly when some pattern of the matcher
\* matches somewhere in "host:port" without regard to case; a matcher without
\* patterns returned false and is falsy, a matcher with patterns is truthy.
C7_HostMatcher ==
    /\ address # NoAddress =>
         LET text == address.host \o <<":">> \o PortText(address.port)
         IN  /\ matched = (\E k \in 1..Len(self.patterns) :
                             MatchesSomewhere(self.patterns[k], text))
             /\ self.patterns = <<>> => ~matched
    /\ HostMatcher_nonzero(self) = (Len(self.patterns) > 0)

C7_Witness ==
    /\ self.patterns = << <<":", "8", "0", "$">>, <<"^", "B">> >>
    /\ address = [host |-> <<"b", "a">>, port |-> 443]
    /\ matched

(***************************************************************************)
(* C8                                                                      *)
(***************************************************************************)
\* spec is domain "=" path with no "=" in domain, or has no "=" and is the path of "*"
IsSplitOf(spec, domain, path) ==
    IF HasChar(spec, "=")
    THEN spec = domain \o <<"=">> \o path /\ ~HasChar(domain, "=")
    ELSE domain = <<"*">> /\ path = spec
\* the path side of a spec: what follows its first "="
RawPath(spec) ==
    IF HasChar(spec, "=")
    THEN LET k == CHOOSE j \in 1..Len(spec) :
                    spec[j] = "=" /\ \A h \in 1..(j - 1) : spec[h] # "="
         IN  [h \in 1..(Len(spec) - k) |-> spec[k + h]]
    ELSE spec
AllCertFilesExist ==
    \A k \in 1..Len(options.certs) :
       os_path_expanduser(RawPath(options.certs[k])) \in Files \cup Dirs
LoopOver == pc \in {"construct", "done", "raised"}

\* C8 as stated: when every path exists, the certificate list has one entry per spec,
\* in order: the spec split at its first "=", "*" and the whole spec without "=".
C8_AsStated ==
    (AllCertFilesExist /\ LoopOver) =>
      /\ Len(certs) = Len(options.certs)
      /\ \A k \in 1..Len(certs) : IsSplitOf(options.certs[k], certs[k][1], certs[k][2])

\* C8 amended: when every path exists, no certificate error is reported and the
\* certificate list has one entry per spec, in order: the spec split at its first
\* "=" ("*" and the whole spec without "="), the path side with its user-home
\* shorthand expanded.  Equal domains stay separate entries, and a returned
\* ProxyConfig has ingested exactly these entries in this order.
C8_CertList ==
    AllCertFilesExist =>
      /\ ErrCert(NoneS).msg \notin Msgs
      /\ pc \in {"certs", "construct", "done", "raised"} =>
           /\ Len(certs) = (IF LoopOver THEN Len(options.certs) ELSE idx - 1)
           /\ \A k \in 1..Len(certs) :
                \E path \in {RawPath(options.certs[k])} :
                   /\ IsSplitOf(options.certs[k], certs[k][1], path)
                   /\ certs[k][2] = os_path_expanduser(path)
      /\ Returned => config.certstore = certs

C8_Witness ==
    /\ Returned
    /\ options.certs = << <<"~", "/", "p">>, <<"x", "=", "q", "=", "r">> >>
    /\ config.certstore = << <<Star, <<"/", "h", "/", "p">> >>, << <<"x">>, <<"q", "=", "r">> >> >>

(***************************************************************************)
(* C9                                                                      *)
(***************************************************************************)
\* C9: in a returned ProxyConfig each HTTP form of the mode is its own override when
\* that override is a non-empty string, and the mode class's default otherwise.
C9_FormOverrides ==
    Returned =>
      /\ config.mode.http_form_in =
           IF options.http_form_in \in HttpForms
           THEN options.http_form_in ELSE class_http_form_in
      /\ config.mode.http_form_out =
           IF options.http_form_out \in HttpForms
           THEN options.http_form_out ELSE class_http_form_out

C9_Witness ==
    /\ Returned
    /\ config.mode.name = "socks5"
    /\ options.http_form_in = "authority" /\ options.http_form_out = ""
    /\ class_http_form_in = "relative" /\ class_http_form_out = "absolute"
    /\ config.mode.http_form_in = "authority" /\ config.mode.http_form_out = "absolute"

(***************************************************************************)
(* C10                                                                     *)
(***************************************************************************)
DropTwo(ports) == [k \in 1..(IF Len(ports) > 2 THEN Len(ports) - 2 ELSE 0) |-> ports[k + 2]]

\* C10: the port list is <<443, 8443>> when options.ssl_ports is exactly that, and
\* options.ssl_ports without its first two elements otherwise; so the default
\* followed by user ports gives the user ports.  A returned ProxyConfig stores this
\* list, and its Transparent or Socks5 mode carries the same list.
C10_SslPorts ==
    /\ LoopOver =>
         /\ ssl_ports = IF options.ssl_ports = <<443, 8443>>
                        THEN <<443, 8443>> ELSE DropTwo(options.ssl_ports)
         /\ (Len(options.ssl_ports) > 2 /\ options.ssl_ports[1] = 443
             /\ options.ssl_ports[2] = 8443) =>
              <<443, 8443>> \o ssl_ports = options.ssl_ports
    /\ Returned =>
         /\ config.ssl_ports = ssl_ports
         /\ config.mode.name \in {"transparent", "socks5"} =>
              config.mode.sslports = config.ssl_ports

C10_Witness ==
    /\ Returned
    /\ options.ssl_ports = <<443, 8443, 80, 443>>
    /\ config.mode.name = "socks5"
    /\ config.mode.sslports = <<80, 443>>
    /\ config.ssl_ports = <<80, 443>>

====
